---- MODULE Spec2Model ----
(***************************************************************************)
(* Model of bit_pattern (src/main.cpp): three matchers that count the      *)
(* occurrences of the 3-bit pattern 0b110 in a bitstream delivered as      *)
(* bytes, most-significant bit first.                                      *)
(*                                                                         *)
(*   StateMachine    a bit-by-bit automaton with carry  pos                *)
(*   SlidingBitmask  a 16-bit window with carry  prev                      *)
(*   Lut             a 1024-entry table built by its constructor from a    *)
(*                   disposable SlidingBitmask, with carry  prev           *)
(*                                                                         *)
(* The three objects are constructed as in main (StateMachine,             *)
(* SlidingBitmask, then Lut, whose constructor body is modelled one loop   *)
(* iteration per step), and are then fed the same bytes, one byte at a     *)
(* time, in the order of the methods vector.                               *)
(***************************************************************************)
EXTENDS Integers, Sequences, FiniteSets

\* Number of bytes the byte source delivers in a run of the model.
MaxBytes == 2

\* Bytes per batch and number of batches of the driver (BATCH_SIZE and
\* N_BYTES / BATCH_SIZE, scaled down).
BatchSize == 2

Batches == 2

\* #define N_BYTES 10000000
N_BYTES == 10000000

\* The largest value of int total_count.
INT_MAX == 2147483647

\* const unsigned char pattern{0b110}
pattern == 6

\* int count_lut[1024]
LutSize == 1024

\* The values of an unsigned char.
Byte == 0..255

----------------------------------------------------------------------------
(* C++ integer operators on non-negative values *)

Shl(x, n) == x * (2 ^ n)

Shr(x, n) == x \div (2 ^ n)

RECURSIVE BitAnd(_, _)
BitAnd(x, y) ==
    IF x = 0 \/ y = 0 THEN 0
    ELSE (x % 2) * (y % 2) + 2 * BitAnd(x \div 2, y \div 2)

RECURSIVE BitOr(_, _)
BitOr(x, y) ==
    IF x = 0 THEN y
    ELSE IF y = 0 THEN x
    ELSE (IF x % 2 = 1 \/ y % 2 = 1 THEN 1 ELSE 0) + 2 * BitOr(x \div 2, y \div 2)

\* conversion to unsigned char / unsigned short
ToUChar(x) == x % 256

ToUShort(x) == x % 65536

----------------------------------------------------------------------------
(* StateMachine *)

SM_bit_LsbFirst(sample, i) == ToUChar(BitAnd(sample, Shl(1, 7 - i)))

\* const unsigned char bit = sample & (1 << i);
SM_bit(sample, i) == ToUChar(BitAnd(sample, Shl(1, i)))

SM_switch_Stuck2(pos, bit, counter) ==
    IF pos = 0 \/ pos = 1
    THEN IF bit # 0 THEN [pos |-> pos + 1, counter |-> counter]
                    ELSE [pos |-> 0, counter |-> counter]
    ELSE IF pos = 2
    THEN IF bit # 0 THEN [pos |-> 0, counter |-> counter]
                    ELSE [pos |-> 0, counter |-> counter + 1]
    ELSE [pos |-> pos, counter |-> counter]

SM_switch_Incr2(pos, bit, counter) ==
    IF pos = 0 \/ pos = 1
    THEN IF bit # 0 THEN [pos |-> pos + 1, counter |-> counter]
                    ELSE [pos |-> 0, counter |-> counter]
    ELSE IF pos = 2
    THEN IF bit # 0 THEN [pos |-> pos + 1, counter |-> counter]
                    ELSE [pos |-> 0, counter |-> counter + 1]
    ELSE [pos |-> pos, counter |-> counter]

SM_switch_NoReset(pos, bit, counter) ==
    IF pos = 0 \/ pos = 1
    THEN IF bit # 0 THEN [pos |-> pos + 1, counter |-> counter]
                    ELSE [pos |-> 0, counter |-> counter]
    ELSE IF pos = 2
    THEN IF bit # 0 THEN [pos |-> pos, counter |-> counter]
                    ELSE [pos |-> pos, counter |-> counter + 1]
    ELSE [pos |-> pos, counter |-> counter]

SM_switch_CountOnOne(pos, bit, counter) ==
    IF pos = 0 \/ pos = 1
    THEN IF bit # 0 THEN [pos |-> pos + 1, counter |-> counter]
                    ELSE [pos |-> 0, counter |-> counter]
    ELSE IF pos = 2
    THEN IF bit # 0 THEN [pos |-> pos, counter |-> counter + 1]
                    ELSE [pos |-> 0, counter |-> counter]
    ELSE [pos |-> pos, counter |-> counter]

\* The switch (pos) of one loop iteration.
SM_switch(pos, bit, counter) ==
    IF pos = 0 \/ pos = 1
    THEN IF bit # 0 THEN [pos |-> pos + 1, counter |-> counter]
                    ELSE [pos |-> 0, counter |-> counter]
    ELSE IF pos = 2
    THEN IF bit # 0 THEN [pos |-> pos, counter |-> counter]
                    ELSE [pos |-> 0, counter |-> counter + 1]
    ELSE [pos |-> pos, counter |-> counter]

\* for (int i = 7; i >= 0; i--) { ... }
RECURSIVE SM_loop(_, _, _, _)
SM_loop(sample, i, pos, counter) ==
    IF i >= 0
    THEN LET s == SM_switch(pos, SM_bit(sample, i), counter)
         IN  SM_loop(sample, i - 1, s.pos, s.counter)
    ELSE [pos |-> pos, counter |-> counter]

SM_pattern_match_Assign(pos, total_count, sample) ==
    LET r == SM_loop(sample, 7, pos, 0)
    IN  [ret |-> r.counter, pos |-> r.pos, total_count |-> r.counter]

\* StateMachine::pattern_match: the value returned and the members after it.
SM_pattern_match(pos, total_count, sample) ==
    LET r == SM_loop(sample, 7, pos, 0)
    IN  [ret |-> r.counter, pos |-> r.pos, total_count |-> total_count + r.counter]

RECURSIVE SM_steps_StopAt1(_, _, _, _)
SM_steps_StopAt1(sample, i, pos, counter) ==
    IF i > 0
    THEN LET bit == SM_bit(sample, i)
             s   == SM_switch(pos, bit, counter)
         IN  <<[i |-> i, pos |-> pos, bit |-> bit, dflt |-> pos \notin {0, 1, 2},
                npos |-> s.pos, ncounter |-> s.counter]>>
             \o SM_steps_StopAt1(sample, i - 1, s.pos, s.counter)
    ELSE <<>>

\* The iterations the loop of StateMachine::pattern_match executes, in order:
\* for each, the loop variable i, pos and bit at the switch, whether the
\* default branch is taken, and pos and counter after the switch.
RECURSIVE SM_steps(_, _, _, _)
SM_steps(sample, i, pos, counter) ==
    IF i >= 0
    THEN LET bit == SM_bit(sample, i)
             s   == SM_switch(pos, bit, counter)
         IN  <<[i |-> i, pos |-> pos, bit |-> bit, dflt |-> pos \notin {0, 1, 2},
                npos |-> s.pos, ncounter |-> s.counter]>>
             \o SM_steps(sample, i - 1, s.pos, s.counter)
    ELSE <<>>

----------------------------------------------------------------------------
(* SlidingBitmask *)

SB_combined_NoCarry(prev, sample) == ToUShort(sample)

\* combined_samples = (static_cast<unsigned short>(prev) << 8) | sample
SB_combined(prev, sample) == ToUShort(BitOr(Shl(ToUShort(prev), 8), sample))

SB_window_Mask2(combined_samples, i) == BitAnd(Shr(combined_samples, i), 3)

SB_window_Mask4(combined_samples, i) == BitAnd(Shr(combined_samples, i), 15)

SB_window_Mask6(combined_samples, i) == BitAnd(Shr(combined_samples, i), 6)

\* (combined_samples >> i) & 0x07
SB_window(combined_samples, i) == BitAnd(Shr(combined_samples, i), 7)

\* for (int i = 7; i >= 0; i--) if (window == pattern) counter++;
RECURSIVE SB_loop(_, _, _)
SB_loop(combined_samples, i, counter) ==
    IF i >= 0
    THEN SB_loop(combined_samples, i - 1,
                 IF SB_window(combined_samples, i) = pattern
                 THEN counter + 1 ELSE counter)
    ELSE counter

\* The iterations the loop of SlidingBitmask::pattern_match executes, in
\* order: for each, the loop variable i, the window and counter after it.
RECURSIVE SB_steps(_, _, _)
SB_steps(combined_samples, i, counter) ==
    IF i >= 0
    THEN LET w == SB_window(combined_samples, i)
             c == IF w = pattern THEN counter + 1 ELSE counter
         IN  <<[i |-> i, window |-> w, ncounter |-> c]>>
             \o SB_steps(combined_samples, i - 1, c)
    ELSE <<>>

SB_pattern_match_NoAdd(prev, total_count, sample) ==
    LET counter == SB_loop(SB_combined(prev, sample), 7, 0)
    IN  [ret |-> counter, prev |-> sample, total_count |-> total_count]

SB_pattern_match_PrevLow2(prev, total_count, sample) ==
    LET counter == SB_loop(SB_combined(prev, sample), 7, 0)
    IN  [ret |-> counter, prev |-> sample % 4,
         total_count |-> total_count + counter]

\* SlidingBitmask::pattern_match: the value returned and the members after it.
SB_pattern_match(prev, total_count, sample) ==
    LET counter == SB_loop(SB_combined(prev, sample), 7, 0)
    IN  [ret |-> counter, prev |-> sample, total_count |-> total_count + counter]

----------------------------------------------------------------------------
(* Lut *)

Lut_index_NoMask(prev, sample) ==
    ToUShort(BitOr(Shl(ToUShort(prev), 8), sample))

Lut_index_Mask9(prev, sample) ==
    ToUShort(BitAnd(BitOr(Shl(ToUShort(prev), 8), sample), 511))

\* combined_samples = ((static_cast<unsigned short>(prev) << 8) | sample) & 0x3FF
Lut_index(prev, sample) ==
    ToUShort(BitAnd(BitOr(Shl(ToUShort(prev), 8), sample), 1023))

\* Lut::pattern_match: the value returned and the members after it.
Lut_pattern_match(prev, total_count, lut, sample) ==
    LET counter == lut[Lut_index(prev, sample)]
    IN  [ret |-> counter, prev |-> sample, total_count |-> total_count + counter]

Lut_entry_FreshEachCall(c) ==
    LET first  == SB_pattern_match(0, 0, ToUChar(Shr(c, 8)))
        second == SB_pattern_match(0, 0, ToUChar(BitAnd(c, 255)))
    IN  first.ret + second.ret

Lut_entry_HighShift2(c) ==
    LET first  == SB_pattern_match(0, 0, ToUChar(Shr(c, 2)))
        second == SB_pattern_match(first.prev, first.total_count,
                                   ToUChar(BitAnd(c, 255)))
    IN  first.ret + second.ret

\* The body of the constructor's loop for combined_samples = c: the counter
\* it stores, from a SlidingBitmask method2 local to the iteration.
Lut_entry(c) ==
    LET first  == SB_pattern_match(0, 0, ToUChar(Shr(c, 8)))
        second == SB_pattern_match(first.prev, first.total_count,
                                   ToUChar(BitAnd(c, 255)))
    IN  first.ret + second.ret

----------------------------------------------------------------------------
(* State *)

VARIABLES
    pc,                 \* "ctor" | "sm" | "sb" | "lut": what runs next
                        \* (driver: "batch" | "call" | "done")
    sm_pos, sm_total_count,             \* StateMachine members
    sb_prev, sb_total_count,            \* SlidingBitmask members
    lut_prev, lut_total_count, count_lut,   \* Lut members
    combined_samples,   \* the local of the Lut constructor
    sample,             \* the byte being fed to the three matchers (0 before the first)
    n,                  \* number of bytes delivered by the byte source
    tail,               \* the last two bits of the stream before sample
    allFF,              \* every byte delivered so far was 0xFF
    sm_ret, sb_ret, lut_ret,    \* value returned for sample (0 until the call)
    sm_sum, sb_sum, lut_sum,    \* sum of the values returned so far
    sm_entry,           \* pos at the entry of the last StateMachine call
    ctor_writes,        \* the constructor's writes to count_lut: how many so
                        \* far, and the index of the latest
    batch, samples, method, idx,    \* main's loop variables and batch array
    fed,                \* per method, the bytes of this batch it was called with
    calls               \* per method, the number of pattern_match calls so far

sm_vars  == <<sm_pos, sm_total_count>>
sb_vars  == <<sb_prev, sb_total_count>>
lut_vars == <<lut_prev, lut_total_count, count_lut>>
src_vars == <<sample, n, tail, allFF>>
ret_vars == <<sm_ret, sb_ret, lut_ret>>
sum_vars == <<sm_sum, sb_sum, lut_sum>>

drv_vars == <<batch, samples, method, idx, fed, calls>>

vars == <<pc, sm_vars, sb_vars, lut_vars, combined_samples, src_vars,
          ret_vars, sum_vars, sm_entry, ctor_writes, drv_vars>>

\* The 8 bits of a byte, most significant first.
Bits(b) == [k \in 1..8 |-> (b \div (2 ^ (8 - k))) % 2]

\* The last two bits of a bit sequence.
Last2(s) == <<s[Len(s) - 1], s[Len(s)]>>

\* Members after the member initializers; the Lut constructor body is next.
Init ==
    /\ pc = "ctor"
    /\ sm_pos = 0 /\ sm_total_count = 0
    /\ sb_prev = 0 /\ sb_total_count = 0
    /\ lut_prev = 0 /\ lut_total_count = 0
    /\ count_lut = [c \in 0..(LutSize - 1) |-> 0]
    /\ combined_samples = 0
    /\ sample = 0 /\ n = 0 /\ tail = <<0, 0>> /\ allFF = TRUE
    /\ sm_ret = 0 /\ sb_ret = 0 /\ lut_ret = 0
    /\ sm_sum = 0 /\ sb_sum = 0 /\ lut_sum = 0
    /\ sm_entry = 0
    /\ ctor_writes = [count |-> 0, last |-> 0]
    /\ batch = 0 /\ samples = <<>> /\ method = 0 /\ idx = 0
    /\ fed = [m \in 0..2 |-> <<>>]
    /\ calls = [m \in 0..2 |-> 0]

LutCtor_OnSelf ==
    /\ pc = "ctor"
    /\ IF combined_samples < LutSize
       THEN /\ count_lut' = [count_lut EXCEPT ![combined_samples] =
                                Lut_entry(combined_samples)]
            /\ combined_samples' = ToUShort(combined_samples + 1)
            /\ ctor_writes' = [count |-> ctor_writes.count + 1,
                               last |-> combined_samples]
            /\ lut_prev' = ToUChar(BitAnd(combined_samples, 255))
            /\ lut_total_count' = lut_total_count + Lut_entry(combined_samples)
            /\ pc' = "ctor"
       ELSE /\ pc' = "sm"
            /\ UNCHANGED <<count_lut, combined_samples, lut_prev, lut_total_count,
                           ctor_writes>>
    /\ UNCHANGED <<sm_vars, sb_vars, src_vars, ret_vars, sum_vars, sm_entry,
                   drv_vars>>

\* One test and iteration of  while (combined_samples < std::size(count_lut)).
LutCtor ==
    /\ pc = "ctor"
    /\ IF combined_samples < LutSize
       THEN /\ count_lut' = [count_lut EXCEPT ![combined_samples] =
                                Lut_entry(combined_samples)]
            /\ combined_samples' = ToUShort(combined_samples + 1)
            /\ ctor_writes' = [count |-> ctor_writes.count + 1,
                               last |-> combined_samples]
            /\ pc' = "ctor"
       ELSE /\ pc' = "sm"
            /\ UNCHANGED <<count_lut, combined_samples, ctor_writes>>
    /\ UNCHANGED <<sm_vars, sb_vars, lut_prev, lut_total_count, src_vars,
                   ret_vars, sum_vars, sm_entry, drv_vars>>

\* The driver takes the next byte of the stream and calls
\* methods[0]->pattern_match(sample).
SMCall ==
    /\ pc = "sm"
    /\ n < MaxBytes
    /\ \E b \in Byte :
          /\ sample' = b
          /\ allFF' = (allFF /\ b = 255)
          /\ \E r \in {SM_pattern_match(sm_pos, sm_total_count, b)} :
                 /\ sm_pos' = r.pos
                 /\ sm_total_count' = r.total_count
                 /\ sm_ret' = r.ret
                 /\ sm_sum' = sm_sum + r.ret
    /\ n' = n + 1
    /\ tail' = Last2(tail \o Bits(sample))
    /\ sb_ret' = 0 /\ lut_ret' = 0
    /\ sm_entry' = sm_pos
    /\ pc' = "sb"
    /\ UNCHANGED <<sb_vars, lut_vars, combined_samples, sb_sum, lut_sum,
                   ctor_writes, drv_vars>>

\* methods[1]->pattern_match(sample)
SBCall ==
    /\ pc = "sb"
    /\ \E r \in {SB_pattern_match(sb_prev, sb_total_count, sample)} :
           /\ sb_prev' = r.prev
           /\ sb_total_count' = r.total_count
           /\ sb_ret' = r.ret
           /\ sb_sum' = sb_sum + r.ret
    /\ pc' = "lut"
    /\ UNCHANGED <<sm_vars, lut_vars, combined_samples, src_vars,
                   sm_ret, lut_ret, sm_sum, lut_sum, sm_entry, ctor_writes,
                   drv_vars>>

LutCall_WritesTable ==
    /\ pc = "lut"
    /\ \E r \in {Lut_pattern_match(lut_prev, lut_total_count, count_lut, sample)} :
           /\ lut_prev' = r.prev
           /\ lut_total_count' = r.total_count
           /\ lut_ret' = r.ret
           /\ lut_sum' = lut_sum + r.ret
           /\ count_lut' = [count_lut EXCEPT ![Lut_index(lut_prev, sample)] =
                                r.total_count]
    /\ pc' = "sm"
    /\ UNCHANGED <<sm_vars, sb_vars, combined_samples, src_vars,
                   sm_ret, sb_ret, sm_sum, sb_sum, sm_entry, ctor_writes,
                   drv_vars>>

\* methods[2]->pattern_match(sample)
LutCall ==
    /\ pc = "lut"
    /\ \E r \in {Lut_pattern_match(lut_prev, lut_total_count, count_lut, sample)} :
           /\ lut_prev' = r.prev
           /\ lut_total_count' = r.total_count
           /\ lut_ret' = r.ret
           /\ lut_sum' = lut_sum + r.ret
    /\ pc' = "sm"
    /\ UNCHANGED <<sm_vars, sb_vars, count_lut, combined_samples, src_vars,
                   sm_ret, sb_ret, sm_sum, sb_sum, sm_entry, ctor_writes,
                   drv_vars>>

Next == LutCtor \/ SMCall \/ SBCall \/ LutCall

Spec == Init /\ [][Next]_vars

----------------------------------------------------------------------------
(* The driver: main's batch loop *)

\* The bytes the byte source delivers to the driver: 0x00, 0x03, 0x6D, 0xFF.
DriverBytes == {0, 3, 109, 255}

\* The three objects after their constructors have run.
InitDriver ==
    /\ pc = "batch"
    /\ sm_pos = 0 /\ sm_total_count = 0
    /\ sb_prev = 0 /\ sb_total_count = 0
    /\ lut_prev = 0 /\ lut_total_count = 0
    /\ count_lut = [c \in 0..(LutSize - 1) |-> Lut_entry(c)]
    /\ combined_samples = LutSize
    /\ sample = 0 /\ n = 0 /\ tail = <<0, 0>> /\ allFF = TRUE
    /\ sm_ret = 0 /\ sb_ret = 0 /\ lut_ret = 0
    /\ sm_sum = 0 /\ sb_sum = 0 /\ lut_sum = 0
    /\ sm_entry = 0
    /\ ctor_writes = [count |-> LutSize, last |-> LutSize - 1]
    /\ batch = 0 /\ samples = <<>> /\ method = 0 /\ idx = 0
    /\ fed = [m \in 0..2 |-> <<>>]
    /\ calls = [m \in 0..2 |-> 0]

\* What the driver's actions leave alone.
spec_only == <<combined_samples, src_vars, ret_vars, sum_vars, sm_entry,
               ctor_writes, count_lut>>

\* for (batch = 0; batch < N_BYTES / BATCH_SIZE; ...): read the next batch.
ReadBatch ==
    /\ pc = "batch"
    /\ batch < Batches
    /\ samples' \in [1..BatchSize -> DriverBytes]
    /\ method' = 0 /\ idx' = 0
    /\ fed' = [m \in 0..2 |-> <<>>]
    /\ pc' = "call"
    /\ UNCHANGED <<batch, calls, sm_vars, sb_vars, lut_prev, lut_total_count,
                   spec_only>>

DrvSample_Reversed == samples[BatchSize - idx]

\* samples[i]
DrvSample == samples[idx + 1]

\* method->pattern_match(samples[i]); i++  for methods[0]
DrvSM ==
    /\ pc = "call" /\ method = 0 /\ idx < BatchSize
    /\ \E r \in {SM_pattern_match(sm_pos, sm_total_count, DrvSample)} :
           /\ sm_pos' = r.pos
           /\ sm_total_count' = r.total_count
    /\ idx' = idx + 1
    /\ fed' = [fed EXCEPT ![0] = Append(@, DrvSample)]
    /\ calls' = [calls EXCEPT ![0] = @ + 1]
    /\ UNCHANGED <<pc, batch, samples, method, sb_vars, lut_prev,
                   lut_total_count, spec_only>>

\* method->pattern_match(samples[i]); i++  for methods[1]
DrvSB ==
    /\ pc = "call" /\ method = 1 /\ idx < BatchSize
    /\ \E r \in {SB_pattern_match(sb_prev, sb_total_count, DrvSample)} :
           /\ sb_prev' = r.prev
           /\ sb_total_count' = r.total_count
    /\ idx' = idx + 1
    /\ fed' = [fed EXCEPT ![1] = Append(@, DrvSample)]
    /\ calls' = [calls EXCEPT ![1] = @ + 1]
    /\ UNCHANGED <<pc, batch, samples, method, sm_vars, lut_prev,
                   lut_total_count, spec_only>>

\* method->pattern_match(samples[i]); i++  for methods[2]
DrvLut ==
    /\ pc = "call" /\ method = 2 /\ idx < BatchSize
    /\ \E r \in {Lut_pattern_match(lut_prev, lut_total_count, count_lut,
                                    DrvSample)} :
           /\ lut_prev' = r.prev
           /\ lut_total_count' = r.total_count
    /\ idx' = idx + 1
    /\ fed' = [fed EXCEPT ![2] = Append(@, DrvSample)]
    /\ calls' = [calls EXCEPT ![2] = @ + 1]
    /\ UNCHANGED <<pc, batch, samples, method, sm_vars, sb_vars, spec_only>>

\* The inner loop ends (i = BATCH_SIZE): the range-for takes the next method.
NextMethod ==
    /\ pc = "call" /\ method < 3 /\ idx = BatchSize
    /\ method' = method + 1
    /\ idx' = 0
    /\ UNCHANGED <<pc, batch, samples, fed, calls, sm_vars, sb_vars, lut_prev,
                   lut_total_count, spec_only>>

\* The range-for over methods ends: batch++.
NextBatch ==
    /\ pc = "call" /\ method = 3
    /\ batch' = batch + 1
    /\ pc' = "batch"
    /\ UNCHANGED <<samples, method, idx, fed, calls, sm_vars, sb_vars, lut_prev,
                   lut_total_count, spec_only>>

\* The batch loop ends; main prints the totals.
Finish ==
    /\ pc = "batch" /\ batch >= Batches
    /\ pc' = "done"
    /\ UNCHANGED <<batch, samples, method, idx, fed, calls, sm_vars, sb_vars,
                   lut_prev, lut_total_count, spec_only>>

NextDriver ==
    ReadBatch \/ DrvSM \/ DrvSB \/ DrvLut \/ NextMethod \/ NextBatch \/ Finish

SpecDriver == InitDriver /\ [][NextDriver]_vars

----------------------------------------------------------------------------
(* Properties *)

\* The matcher has processed the current sample.
SM_called  == n > 0
SB_called  == n > 0 /\ pc \in {"lut", "sm"}
Lut_called == n > 0 /\ pc = "sm"

\* The 10 bits that decide the count of sample: the two bits before it in
\* the stream (two 0 bits before the first byte), then its 8 bits.
Window10 == tail \o Bits(sample)

\* Number of bit positions j of sample (7..0) at which the three stream bits
\* ending at j are 1,1,0.  Bit j of sample is Window10[10 - j].
RefCount ==
    LET w == Window10
    IN  Cardinality({j \in 0..7 :
            <<w[8 - j], w[9 - j], w[10 - j]>> = <<1, 1, 0>>})

\* C1: fed the same bytes in the same order, the three matchers have equal
\* total_count after every prefix, and return equal counts for every byte.
C1_Equivalence ==
    pc = "sm" =>
        /\ sm_total_count = sb_total_count
        /\ sb_total_count = lut_total_count
        /\ sm_ret = sb_ret
        /\ sb_ret = lut_ret

C1_Witness ==
    pc = "sm" /\ n >= 2 /\ tail = <<1, 1>> /\ sm_ret >= 2 /\ sm_total_count >= 3

\* C2: SlidingBitmask returns the number of bit positions of the byte at
\* which a window 1,1,0 of the stream ends, each position counted on its own.
C2_SlidingCount == SB_called => sb_ret = RefCount

C2_Witness == sb_ret = 3 /\ tail = <<1, 1>> /\ n >= 2

\* The previous byte ends in two 1 bits and the current byte starts with 0.
Boundary == n >= 2 /\ tail = <<1, 1>> /\ sample < 128

\* C3: across such a boundary each matcher returns at least 1, and exactly
\* one more than a freshly constructed matcher returns for the same byte.
C3_CrossBoundary ==
    Boundary =>
        /\ SM_called =>
              /\ sm_ret >= 1
              /\ sm_ret = SM_pattern_match(0, 0, sample).ret + 1
        /\ SB_called =>
              /\ sb_ret >= 1
              /\ sb_ret = SB_pattern_match(0, 0, sample).ret + 1
        /\ Lut_called =>
              /\ lut_ret >= 1
              /\ lut_ret = Lut_pattern_match(0, 0, count_lut, sample).ret + 1

C3_Witness ==
    Boundary /\ pc = "sm" /\ sm_ret = 1 /\ sb_ret = 1 /\ lut_ret = 1

\* For a 10-bit value c, the sum of the two counts a fresh SlidingBitmask
\* returns when fed its high part and then its low 8 bits.
SlidingOracle(c) ==
    LET first  == SB_pattern_match(0, 0, c \div 256)
        second == SB_pattern_match(first.prev, first.total_count, c % 256)
    IN  first.ret + second.ret

\* C4: once the Lut constructor has finished, all 1024 entries of count_lut
\* have been written, each with the sum of those two counts.  During the
\* construction this is checked of the entry just written, at its end of the
\* whole table, and after the first call of the entry the current sample
\* selects.
C4_TableConsistent ==
    /\ (pc = "ctor" /\ combined_samples > 0) =>
          count_lut[combined_samples - 1] = SlidingOracle(combined_samples - 1)
    /\ (pc = "sm" /\ n = 0) =>
          \A c \in 0..(combined_samples - 1) : count_lut[c] = SlidingOracle(c)
    /\ pc # "ctor" =>
          /\ combined_samples = 1024
          /\ DOMAIN count_lut = 0..1023
          /\ LET c == (lut_prev % 4) * 256 + sample
             IN  count_lut[c] = SlidingOracle(c)

C4_Witness ==
    pc = "sm" /\ n = 0 /\ count_lut[768] = 1 /\ count_lut[1023] = 0
                /\ count_lut[876] = 3

\* C5: no step decreases the total_count of any matcher.
C5_Monotone ==
    [][/\ sm_total_count' >= sm_total_count
       /\ sb_total_count' >= sb_total_count
       /\ lut_total_count' >= lut_total_count]_vars

C5_Witness ==
    pc = "sm" /\ n >= 2 /\ sm_ret = 0 /\ sm_total_count > 0
                /\ sb_total_count > 0 /\ lut_total_count > 0

\* C6: before the first pattern_match call every matcher has total_count 0
\* and its initial carry, the Lut also after its constructor has run.
C6_FreshState ==
    n = 0 =>
        /\ sm_total_count = 0 /\ sm_pos = 0
        /\ sb_total_count = 0 /\ sb_prev = 0
        /\ lut_total_count = 0 /\ lut_prev = 0

C6_Witness == pc = "sm" /\ n = 0 /\ combined_samples = LutSize

\* C7: while every byte fed so far is 0xFF, every total_count is 0.
C7_AllOnes ==
    allFF => sm_total_count = 0 /\ sb_total_count = 0 /\ lut_total_count = 0

C7_Witness ==
    allFF /\ n >= 2 /\ pc = "sm" /\ sm_pos = 2 /\ sb_prev = 255 /\ lut_prev = 255

\* C8: 0xC0 as the first byte makes each matcher return 1 and have total 1.
C8_SingleByte ==
    n = 1 /\ sample = 192 =>
        /\ SM_called => sm_ret = 1 /\ sm_total_count = 1
        /\ SB_called => sb_ret = 1 /\ sb_total_count = 1
        /\ Lut_called => lut_ret = 1 /\ lut_total_count = 1

C8_Witness ==
    n = 1 /\ sample = 192 /\ pc = "sm" /\ SM_called /\ SB_called
          /\ Lut_called

\* C9: the total_count of each matcher is the sum of the values its
\* pattern_match calls have returned.
C9_TotalIsSum ==
    /\ sm_total_count = sm_sum
    /\ sb_total_count = sb_sum
    /\ lut_total_count = lut_sum

C9_Witness ==
    n >= 2 /\ pc = "sm" /\ sm_sum >= 2 /\ sb_sum >= 2 /\ lut_sum >= 2
           /\ sm_ret = 1

\* C10: a pattern_match call on one matcher changes no member of another
\* matcher, and Lut::pattern_match changes no entry of count_lut.
C10_Frame ==
    [][/\ pc = "sm" => UNCHANGED <<sb_vars, lut_vars>>
       /\ pc = "sb" => UNCHANGED <<sm_vars, lut_vars>>
       /\ pc = "lut" => UNCHANGED <<sm_vars, sb_vars, count_lut>>]_vars

C10_Witness ==
    pc = "sm" /\ n >= 1 /\ lut_prev = sample /\ sample # 0
                /\ lut_total_count > 0 /\ count_lut[768] = 1

\* The iterations of the StateMachine call that processed the current sample.
SM_trace == SM_steps(sample, 7, sm_entry, 0)

\* C11: pos is 0, 1 or 2 in every state and at every iteration of every
\* StateMachine call, and no iteration takes the default branch.
C11_PosInRange ==
    /\ sm_pos \in {0, 1, 2}
    /\ sm_entry \in {0, 1, 2}
    /\ pc = "sb" =>
          \A t \in {SM_trace} : \A k \in 1..Len(t) :
              /\ t[k].pos \in {0, 1, 2}
              /\ t[k].npos \in {0, 1, 2}
              /\ ~t[k].dflt

C11_Witness ==
    pc = "sb" /\ n >= 2 /\ sm_entry = 2 /\ sample = 255 /\ sm_pos = 2

\* Number of consecutive 1 bits at the end of the first len bits of s.
RECURSIVE OnesAtEnd(_, _)
OnesAtEnd(s, len) ==
    IF len = 0 \/ s[len] = 0 THEN 0 ELSE 1 + OnesAtEnd(s, len - 1)

Min2(x) == IF x < 2 THEN x ELSE 2

\* C12: after every bit, pos is min(2, number of consecutive 1 bits at the
\* end of the stream so far); counter is incremented exactly when a 0 bit is
\* consumed while pos = 2, and pos is 0 after that.  Iteration k of a call
\* consumes Window10[k + 2].
C12_PosIsRunOfOnes ==
    \A w \in {Window10} :
        /\ sm_pos = Min2(OnesAtEnd(w, 10))
        /\ pc = "sb" =>
              \A t \in {SM_trace} :
                  /\ Len(t) = 8
                  /\ \A k \in 1..8 :
                        LET before  == IF k = 1 THEN 0 ELSE t[k - 1].ncounter
                            counted == t[k].ncounter = before + 1
                        IN  /\ (t[k].bit # 0) = (w[k + 2] = 1)
                            /\ t[k].pos = Min2(OnesAtEnd(w, k + 1))
                            /\ t[k].npos = Min2(OnesAtEnd(w, k + 2))
                            /\ counted = (t[k].bit = 0 /\ t[k].pos = 2)
                            /\ ~counted => t[k].ncounter = before
                            /\ counted => t[k].npos = 0
                  /\ t[8].npos = sm_pos
                  /\ t[8].ncounter = sm_ret

C12_Witness ==
    pc = "sb" /\ n >= 2 /\ sm_entry = 2 /\ sample < 128 /\ sm_ret = 3

\* C13: whatever value pattern holds, the count StateMachine returns for a
\* byte is the number of positions of the byte at which the bits 1,1,0 are
\* completed in the stream; when pattern is 0b110 it agrees with the counts
\* of SlidingBitmask and Lut.
C13_StateMachineFixedPattern ==
    /\ SM_called => sm_ret = RefCount
    /\ (pattern = 6 /\ pc = "sm") =>
          /\ sm_ret = sb_ret /\ sm_ret = lut_ret
          /\ sm_total_count = sb_total_count
          /\ sm_total_count = lut_total_count

C13_Witness ==
    pc = "sm" /\ n >= 2 /\ tail = <<1, 1>> /\ sm_ret = 3 /\ sb_ret = 3
              /\ lut_ret = 3

\* The two least-significant bits of the byte processed before sample, as a
\* number (0 before the first byte).
PrevLow2 == 2 * tail[1] + tail[2]

\* C14: the count SlidingBitmask and Lut return for a byte is the count
\* returned by an instance whose carry holds only the two low bits of the
\* previous byte, so it is the same for all histories that agree on them.
C14_TwoCarryBits ==
    /\ SB_called => sb_ret = SB_pattern_match(PrevLow2, 0, sample).ret
    /\ Lut_called => lut_ret = Lut_pattern_match(PrevLow2, 0, count_lut, sample).ret
    /\ pc = "sb" => sb_prev % 4 = PrevLow2
    /\ pc \in {"sb", "lut"} => lut_prev % 4 = PrevLow2

C14_Witness ==
    pc = "lut" /\ n >= 2 /\ lut_prev >= 128 /\ lut_prev % 4 = 3 /\ sb_ret = 2

\* C15: every index used on count_lut is in 0..1023: the index the next
\* Lut::pattern_match call reads, for every prev and sample, and the index
\* the next iteration of the constructor writes.
C15_IndexInRange ==
    /\ DOMAIN count_lut = 0..1023
    /\ pc = "lut" =>
          /\ Lut_index(lut_prev, sample) \in 0..1023
          /\ Lut_index(lut_prev, sample) \in DOMAIN count_lut
    /\ pc = "ctor" =>
          /\ combined_samples \in 0..1024
          /\ combined_samples < LutSize => combined_samples \in DOMAIN count_lut

C15_Witness ==
    pc = "lut" /\ lut_prev = 255 /\ sample = 255
               /\ Lut_index(lut_prev, sample) = 1023

\* The iterations of the SlidingBitmask call that is next on the current
\* sample.
SB_trace == SB_steps(SB_combined(sb_prev, sample), 7, 0)

\* C16: every StateMachine and SlidingBitmask call executes exactly 8 loop
\* iterations, with i = 7 down to 0, for every byte and carry; the loop of
\* the Lut constructor executes exactly 1024 iterations and ends with
\* combined_samples = 1024, and its k-th iteration writes index k - 1, so
\* each index 0..1023 is written exactly once.
C16_FixedIterations ==
    /\ pc = "sb" =>
          /\ \A t \in {SM_trace} :
                /\ Len(t) = 8
                /\ \A k \in 1..Len(t) : t[k].i = 8 - k
                /\ t[Len(t)].ncounter = sm_ret
          /\ \A t \in {SB_trace} :
                /\ Len(t) = 8
                /\ \A k \in 1..Len(t) : t[k].i = 8 - k
                /\ t[Len(t)].ncounter
                      = SB_pattern_match(sb_prev, sb_total_count, sample).ret
    /\ ctor_writes.count = combined_samples
    /\ ctor_writes.count > 0 => ctor_writes.last = ctor_writes.count - 1
    /\ pc # "ctor" =>
          /\ combined_samples = 1024
          /\ ctor_writes.count = 1024

C16_Witness ==
    pc = "sb" /\ n >= 2 /\ combined_samples = 1024 /\ ctor_writes.count = 1024
              /\ ctor_writes.last = 1023 /\ sb_prev = 255 /\ sample = 170

\* s is a prefix of t.
IsPrefix(s, t) == Len(s) <= Len(t) /\ s = SubSeq(t, 1, Len(s))

\* C17: in every batch each matcher is called with the bytes of the batch in
\* index order and with all of them before the next matcher starts; no
\* matcher is called for a later batch before all three have finished this
\* one; at every batch boundary the three have had the same bytes and their
\* total_count are equal.
C17_BatchOrder ==
    /\ \A m \in 0..2 :
          /\ IsPrefix(fed[m], samples)
          /\ calls[m] = batch * BatchSize
                           + (IF pc = "call" THEN Len(fed[m]) ELSE 0)
          /\ (pc = "call" /\ method > m) => fed[m] = samples
          /\ (pc = "call" /\ method < m) => fed[m] = <<>>
          /\ (pc = "call" /\ method = m) => Len(fed[m]) = idx
          /\ (pc # "call" /\ batch > 0) => fed[m] = samples
    /\ pc # "call" =>
          /\ calls[0] = batch * BatchSize
          /\ calls[1] = calls[0] /\ calls[2] = calls[0]
          /\ sm_total_count = sb_total_count
          /\ sb_total_count = lut_total_count
          /\ batch > 0 => sb_prev = samples[BatchSize] /\ lut_prev = sb_prev

\* Mid-batch the totals of different matchers differ.
C17_Witness ==
    /\ pc = "call" /\ batch = 1 /\ method = 1 /\ idx = 1
    /\ sm_total_count > sb_total_count
    /\ sb_total_count > lut_total_count

\* C18: after the same bytes, SlidingBitmask.prev and Lut.prev are the last
\* byte processed (0 if none) and StateMachine.pos follows from that byte's
\* low two bits: 2 iff they are 11, 1 iff they are 01, 0 iff the lowest bit
\* is 0.
C18_StateCorrespondence ==
    /\ (sm_pos = 2) = (sample % 4 = 3)
    /\ (sm_pos = 1) = (sample % 4 = 1)
    /\ (sm_pos = 0) = (sample % 2 = 0)
    /\ pc \in {"lut", "sm"} => sb_prev = sample
    /\ pc \in {"sm", "ctor"} => lut_prev = sample
    /\ n = 0 => sm_pos = 0 /\ sb_prev = 0 /\ lut_prev = 0
    /\ pc = "sb" => sb_prev % 4 = 2 * tail[1] + tail[2]
    /\ pc = "sb" => lut_prev = sb_prev

C18_Witness ==
    /\ pc = "sm" /\ n >= 2 /\ tail = <<1, 1>>
    /\ sample = 253 /\ sm_pos = 1 /\ sb_prev = 253 /\ lut_prev = 253

\* The number of j in 0..7 for which bits j+2..j of c are 0b110.
WindowCount(c) == Cardinality({j \in 0..7 : (c \div (2 ^ j)) % 8 = 6})

\* The first synthetic call of the constructor's iteration for c.
CtorFirst(c) == SB_pattern_match(0, 0, ToUChar(Shr(c, 8)))

\* The second one, on the object the first one left.
CtorSecond(first, c) ==
    SB_pattern_match(first.prev, first.total_count, ToUChar(BitAnd(c, 255)))

\* What C19 says of entry c.
EntryIsWindowCount(c) ==
    \A first \in {CtorFirst(c)} :
        /\ first.ret = 0
        /\ first.total_count = 0
        /\ count_lut[c] = CtorSecond(first, c).ret
        /\ count_lut[c] = WindowCount(c)

\* C19: in the Lut constructor the first call, pattern_match(combined_samples
\* >> 8), returns 0 for every index, so count_lut[c] is the count of the
\* second call alone: the number of the 8 windows of the 10-bit value c that
\* equal 0b110.  Checked of each entry when it is written and of the whole
\* table when the constructor has finished.
C19_NoDoubleCount ==
    /\ (pc = "ctor" /\ combined_samples > 0) =>
          EntryIsWindowCount(combined_samples - 1)
    /\ (pc = "sm" /\ n = 0) => \A c \in 0..1023 : EntryIsWindowCount(c)
    /\ pc # "ctor" => combined_samples = LutSize

C19_Witness ==
    /\ pc = "ctor" /\ combined_samples = 1024
    /\ count_lut[438] = 3 /\ count_lut[768] = 1 /\ count_lut[1022] = 1

\* The number of bytes each matcher has processed.
SM_bytes == n

SB_bytes == IF pc = "sb" THEN n - 1 ELSE n

Lut_bytes == IF pc \in {"sb", "lut"} THEN n - 1 ELSE n

\* C20: every pattern_match call returns a count in 0..3 and every count_lut
\* entry is in 0..3, so after k processed bytes 0 <= total_count <= 3*k; for
\* N_BYTES bytes that stays below 2^31, within the int total_count.
C20_CountBounds ==
    /\ sm_ret \in 0..3 /\ sb_ret \in 0..3 /\ lut_ret \in 0..3
    /\ (pc = "ctor" \/ n = 0) =>
          \A c \in 0..(combined_samples - 1) : count_lut[c] \in 0..3
    /\ pc # "ctor" => count_lut[(lut_prev % 4) * 256 + sample] \in 0..3
    /\ 0 <= sm_total_count /\ sm_total_count <= 3 * SM_bytes
    /\ 0 <= sb_total_count /\ sb_total_count <= 3 * SB_bytes
    /\ 0 <= lut_total_count /\ lut_total_count <= 3 * Lut_bytes
    /\ n <= N_BYTES
    /\ 3 * N_BYTES <= INT_MAX

C20_Witness ==
    /\ pc = "sm" /\ n = 2 /\ sample = 108
    /\ sm_ret = 3 /\ sb_ret = 3 /\ lut_ret = 3
    /\ sm_total_count > 3 /\ sb_total_count > 3 /\ lut_total_count > 3

====
